---------------------------- MODULE Spec2Model ----------------------------
(***************************************************************************)
(* WhatsApp Failure Analysis Dashboard (src/app.py).                       *)
(*                                                                         *)
(* One run of the Streamlit script over one uploaded report: load_data,    *)
(* the campaign overview, analyze_failures, the failure breakdown, the     *)
(* failed-message details, the per-reason contact extraction, the phone    *)
(* validation and the invalid-number export.  Text is modelled as a        *)
(* sequence of one-character strings so that upper-casing, digit           *)
(* extraction and header normalisation are computed character by           *)
(* character, as pandas computes them.  An uncaught Python exception ends  *)
(* the run: pc = "fault" and fault names the exception.                    *)
(***************************************************************************)
EXTENDS Integers, Sequences, FiniteSets, TLC

\* Largest number of data rows of an uploaded report.
MaxRows == 2

----------------------------------------------------------------------------
\* Characters and text

Digits == {"0", "1", "2", "3", "4", "5", "6", "7", "8", "9"}

LowerChars == <<"a", "b", "c", "d", "e", "f", "g", "h", "i", "j", "k", "l", "m",
                "n", "o", "p", "q", "r", "s", "t", "u", "v", "w", "x", "y", "z">>

UpperChars == <<"A", "B", "C", "D", "E", "F", "G", "H", "I", "J", "K", "L", "M",
                "N", "O", "P", "Q", "R", "S", "T", "U", "V", "W", "X", "Y", "Z">>

\* A missing value (pandas NaN).  No text is equal to it: every element of a
\* text is a single character.
NaN == <<"NaN">>

\* str(NaN), what astype(str) makes of a missing value.
NanText == <<"n", "a", "n">>

\* Column names after normalisation.
PHONE_NUMBER == <<"p", "h", "o", "n", "e", "_", "n", "u", "m", "b", "e", "r">>

DELIVERY_STATUS == <<"d", "e", "l", "i", "v", "e", "r", "y", "_",
                     "s", "t", "a", "t", "u", "s">>

DELIVERY_DESCRIPTION == <<"d", "e", "l", "i", "v", "e", "r", "y", "_",
                          "d", "e", "s", "c", "r", "i", "p", "t", "i", "o", "n">>

FAILURE_REASON == <<"f", "a", "i", "l", "u", "r", "e", "_",
                    "r", "e", "a", "s", "o", "n">>

PHONE_CLEAN == <<"p", "h", "o", "n", "e", "_", "c", "l", "e", "a", "n">>

IS_VALID == <<"i", "s", "_", "v", "a", "l", "i", "d">>

NO_REASON == <<"N", "o", " ", "r", "e", "a", "s", "o", "n", " ",
               "p", "r", "o", "v", "i", "d", "e", "d">>

success_statuses == { <<"S", "U", "C", "C", "E", "S", "S">>,
                      <<"D", "E", "L", "I", "V", "E", "R", "E", "D">>,
                      <<"R", "E", "A", "D">> }

\* A phone number with at least this many digits is valid.
MinValidDigits == 10

\* Python booleans as they stand in a column.
PyTrue == <<"True">>

PyFalse == <<"False">>

\* The upper-case letter of each lower-case letter, and the reverse.
UpperOf == [c \in {LowerChars[i] : i \in DOMAIN LowerChars} |->
              UpperChars[CHOOSE i \in DOMAIN LowerChars : LowerChars[i] = c]]

LowerOf == [c \in {UpperChars[i] : i \in DOMAIN UpperChars} |->
              LowerChars[CHOOSE i \in DOMAIN UpperChars : UpperChars[i] = c]]

\* str.upper() and str.lower() of one character.
UpperChar(c) == IF c \in DOMAIN UpperOf THEN UpperOf[c] ELSE c

LowerChar(c) == IF c \in DOMAIN LowerOf THEN LowerOf[c] ELSE c

\* Series.str.upper(): a missing value stays missing.
StrUpper(v) == IF v = NaN THEN NaN ELSE [i \in 1..Len(v) |-> UpperChar(v[i])]

StrLower(s) == [i \in 1..Len(s) |-> LowerChar(s[i])]

\* str.strip(): leading and trailing blanks removed.
StrStrip(s) ==
    LET inner == {i \in 1..Len(s) : s[i] # " "}
    IN  IF inner = {} THEN <<>>
        ELSE LET lo == CHOOSE i \in inner : \A j \in inner : i <= j
                 hi == CHOOSE i \in inner : \A j \in inner : i >= j
             IN  SubSeq(s, lo, hi)

\* str.replace(' ', '_')
StrReplaceBlank(s) == [i \in 1..Len(s) |-> IF s[i] = " " THEN "_" ELSE s[i]]

\* df.columns.str.strip().str.lower().str.replace(' ', '_')
NormalizeColumn(h) == StrReplaceBlank(StrLower(StrStrip(h)))

\* astype(str)
AsTypeStr(v) == IF v = NaN THEN NanText ELSE v

\* str.extract(r'(\d+)')[0]: the leftmost maximal run of digits, missing when
\* the text holds no digit.
ExtractDigits(s) ==
    LET ds == {i \in 1..Len(s) : s[i] \in Digits}
    IN  IF ds = {} THEN NaN
        ELSE LET lo == CHOOSE i \in ds : \A j \in ds : i <= j
                 hi == CHOOSE i \in lo..Len(s) :
                          /\ \A j \in lo..i : s[j] \in Digits
                          /\ (i = Len(s) \/ s[i + 1] \notin Digits)
             IN  SubSeq(s, lo, hi)

\* str.replace(r'\D', '', regex=True): every non-digit removed.
IsDigit(c) == c \in Digits

RemoveNonDigits(s) == SelectSeq(s, IsDigit)

----------------------------------------------------------------------------
\* Tables (pandas DataFrame): the column names, the row labels (index) and
\* the rows, each row a function from the column names to the cells.

EmptyFrame == [columns |-> {}, index |-> <<>>, rows |-> <<>>]

\* DataFrame.empty: no row or no column.
IsEmpty(t) == Len(t.rows) = 0 \/ t.columns = {}

\* The positions at which a boolean mask is true, in order, from position i on.
RECURSIVE Positions(_, _)
Positions(mask, i) ==
    IF i > Len(mask) THEN <<>>
    ELSE (IF mask[i] THEN <<i>> ELSE <<>>) \o Positions(mask, i + 1)

\* df[mask]: the rows at which the mask is true, with their labels, in row
\* order.
Filter(t, mask) ==
    LET ps == Positions(mask, 1)
    IN  [columns |-> t.columns,
         index   |-> [k \in 1..Len(ps) |-> t.index[ps[k]]],
         rows    |-> [k \in 1..Len(ps) |-> t.rows[ps[k]]]]

\* df[name] = values: the column is added, or replaced when it exists.
WithColumn(t, name, values) ==
    [columns |-> t.columns \cup {name},
     index   |-> t.index,
     rows    |-> [k \in 1..Len(t.rows) |->
                    [c \in t.columns \cup {name} |->
                        IF c = name THEN values[k] ELSE t.rows[k][c]]]]

\* The values of one column, in row order.
Column(t, name) == [k \in 1..Len(t.rows) |-> t.rows[k][name]]

\* The .str accessor works on text columns only.  read_csv gives a column
\* whose cells are all missing the dtype float64, on which .str raises
\* AttributeError; a column of no rows has dtype object.
StrAccessorFails(t, name) ==
    /\ Len(t.rows) > 0
    /\ \A k \in 1..Len(t.rows) : t.rows[k][name] = NaN

----------------------------------------------------------------------------
\* The uploaded report

\* Header spellings of the uploaded file.  The phone header is spelled as
\* read_csv's dtype={'phone_number': str} names it, so that the phone numbers
\* are read as text.
HeaderInputs == { <<"p", "h", "o", "n", "e", "_", "n", "u", "m", "b", "e", "r">>,
                  <<"D", "e", "l", "i", "v", "e", "r", "y", " ",
                    "S", "t", "a", "t", "u", "s", " ">>,
                  <<"d", "e", "l", "i", "v", "e", "r", "y", " ",
                    "d", "e", "s", "c", "r", "i", "p", "t", "i", "o", "n">> }

PhoneInputs == { <<>>,
                 <<"+", "9", "1", "-", "9", "8", "7", "6", "5", " ",
                   "4", "3", "2", "1", "0">>,
                 <<"1", "2", "3", "4", "5", "6", "7", "8", "9", "0">> }

StatusInputs == { <<>>,
                  <<"D", "e", "l", "i", "v", "e", "r", "e", "d">>,
                  <<"R", "E", "A", "D">>,
                  <<"s", "u", "c", "c", "e", "s", "s">>,
                  <<"F", "A", "I", "L", "E", "D">> }

DescriptionInputs == { <<>>,
                       <<"B", "l", "o", "c", "k", "e", "d">>,
                       <<"I", "n", "v", "a", "l", "i", "d", " ",
                         "n", "u", "m", "b", "e", "r">> }

\* The normalised name of each header spelling.
ColumnNames == [h \in HeaderInputs |-> NormalizeColumn(h)]

\* The rows an uploaded file with the headers H may hold: a phone number
\* under the phone header, a status under the status header, a description
\* under the description header.
RowInputs(H) ==
    { [h \in H |-> CASE ColumnNames[h] = PHONE_NUMBER -> p
                     [] ColumnNames[h] = DELIVERY_STATUS -> s
                     [] OTHER -> d] :
        p \in PhoneInputs, s \in StatusInputs, d \in DescriptionInputs }

\* The cell texts read_csv reads as a missing value.
na_values == { <<>>, <<"N", "A">> }

ReadCell(text) == IF text \in na_values THEN NaN ELSE text

\* pd.read_csv: the header row and the data rows, empty cells missing.  Rows
\* are labelled by their position, counted from 1 (pandas counts from 0).
read_csv(file) ==
    [columns |-> file.header,
     index   |-> [k \in 1..Len(file.rows) |-> k],
     rows    |-> [k \in 1..Len(file.rows) |->
                    [h \in file.header |-> ReadCell(file.rows[k][h])]]]

\* df.columns = df.columns.str.strip().str.lower().str.replace(' ', '_')
RenameColumns(t) ==
    LET names == {ColumnNames[h] : h \in t.columns}
    IN  [columns |-> names,
         index   |-> t.index,
         rows    |-> [k \in 1..Len(t.rows) |->
                        [c \in names |->
                            t.rows[k][CHOOSE h \in t.columns : ColumnNames[h] = c]]]]

\* The phone_number column as load_data and analyze_failures rewrite it.
ExtractPhone(t) ==
    [k \in 1..Len(t.rows) |-> ExtractDigits(AsTypeStr(t.rows[k][PHONE_NUMBER]))]

load_data(file) ==
    LET named == RenameColumns(read_csv(file))
    IN  IF PHONE_NUMBER \in named.columns
        THEN WithColumn(named, PHONE_NUMBER, ExtractPhone(named))
        ELSE named

----------------------------------------------------------------------------
\* analyze_failures and the aggregations of the main flow

\* Mutant of IsSuccess: the status is compared as it is spelled.
IsSuccessAsSpelled(t) ==
    [k \in 1..Len(t.rows) |-> t.rows[k][DELIVERY_STATUS] \in success_statuses]

\* df['delivery_status'].str.upper().isin(success_statuses): true at the rows
\* whose status, upper-cased, is in the list (a missing status is not).
IsSuccess(t) ==
    [k \in 1..Len(t.rows) |-> StrUpper(t.rows[k][DELIVERY_STATUS]) \in success_statuses]

\* ~mask
Not(mask) == [k \in 1..Len(mask) |-> ~mask[k]]

\* failed.get('delivery_description', 'No reason provided'): the column when
\* the table has it, the default in every row otherwise.
GetDescription(t) ==
    IF DELIVERY_DESCRIPTION \in t.columns
    THEN Column(t, DELIVERY_DESCRIPTION)
    ELSE [k \in 1..Len(t.rows) |-> NO_REASON]

\* What analyze_failures returns and the warnings it shows.  Its .str.upper()
\* raises on a status column that is no text, as the overview's does; the
\* overview runs first, so the main flow never calls it on such a table.
analyze_failures(d) ==
    IF DELIVERY_STATUS \notin d.columns
    THEN [frame    |-> EmptyFrame,
          warnings |-> {"warning: Delivery Status column not found"}]
    ELSE LET failed_rows == Filter(d, Not(IsSuccess(d)))
             phoned == IF PHONE_NUMBER \in d.columns
                       THEN WithColumn(failed_rows, PHONE_NUMBER, ExtractPhone(failed_rows))
                       ELSE failed_rows
         IN  IF IsEmpty(failed_rows)
             THEN [frame |-> failed_rows, warnings |-> {}]
             ELSE [frame    |-> WithColumn(phoned, FAILURE_REASON, GetDescription(phoned)),
                   warnings |-> IF PHONE_NUMBER \in d.columns
                                THEN {}
                                ELSE {"warning: Phone Number column not found in the data"}]

\* The number of rows whose column holds the value.
CountOf(t, name, v) == Cardinality({k \in 1..Len(t.rows) : t.rows[k][name] = v})

\* The values value_counts counts: missing values are dropped.
CountedValues(t, name) == {t.rows[k][name] : k \in 1..Len(t.rows)} \ {NaN}

\* Series.value_counts().reset_index(): one bucket for each distinct value
\* that is not missing, by descending count.  The order of buckets of equal
\* count is not fixed by pandas: every such order is a possible result.
value_counts(t, name) ==
    LET vals == CountedValues(t, name)
        m == Cardinality(vals)
    IN  { [i \in 1..m |-> [reason |-> p[i], count |-> CountOf(t, name, p[i])]] :
            p \in {q \in [1..m -> vals] :
                     /\ \A i, j \in 1..m : i # j => q[i] # q[j]
                     /\ \A i, j \in 1..m :
                           i < j => CountOf(t, name, q[i]) >= CountOf(t, name, q[j])} }

\* Mutant of drop_duplicates: every occurrence is kept.
keep_duplicates(s) == s

\* drop_duplicates(): the first occurrence of each value is kept, in order
\* (missing values count as equal to each other).
RECURSIVE drop_duplicates(_)
drop_duplicates(s) ==
    IF s = <<>> THEN <<>>
    ELSE LET init == drop_duplicates(SubSeq(s, 1, Len(s) - 1))
             last == s[Len(s)]
         IN  IF \E j \in 1..(Len(s) - 1) : s[j] = last
             THEN init
             ELSE Append(init, last)

\* df[[...]]: the table restricted to some of its columns.
Project(t, names) ==
    [columns |-> names,
     index   |-> t.index,
     rows    |-> [k \in 1..Len(t.rows) |-> [c \in names |-> t.rows[k][c]]]]

\* The selectbox's value when it has no option.
None == <<"None">>

\* df['phone_number'].astype(str).str.replace(r'\D', '', regex=True)
PhoneClean(t) ==
    [k \in 1..Len(t.rows) |-> RemoveNonDigits(AsTypeStr(t.rows[k][PHONE_NUMBER]))]

\* df['phone_clean'].apply(lambda x: len(x) >= 10)
IsValid(t) ==
    [k \in 1..Len(t.rows) |->
        IF Len(t.rows[k][PHONE_CLEAN]) >= MinValidDigits THEN PyTrue ELSE PyFalse]

\* Mutant of ValidatedFrame: the cleaned number also replaces phone_number.
ValidatedFrameOverwritingPhone(d) ==
    LET cleaned == WithColumn(d, PHONE_CLEAN, PhoneClean(d))
    IN  WithColumn(WithColumn(cleaned, IS_VALID, IsValid(cleaned)),
                   PHONE_NUMBER, PhoneClean(d))

\* The Dataset after df['phone_clean'] = ... and df['is_valid'] = ...
ValidatedFrame(d) ==
    LET cleaned == WithColumn(d, PHONE_CLEAN, PhoneClean(d))
    IN  WithColumn(cleaned, IS_VALID, IsValid(cleaned))

\* ~df['is_valid']
IsInvalid(t) == [k \in 1..Len(t.rows) |-> t.rows[k][IS_VALID] # PyTrue]

----------------------------------------------------------------------------
\* The program state

VARIABLES
    pc,               \* the section of the script that runs next
    fault,            \* the uncaught exception that ended the run, or "none"
    uploaded_file,    \* the uploaded report: header and rows of cell texts
    df,               \* the Dataset load_data returned
    total_messages,   \* overview: len(df)
    success,          \* overview: rows with a successful status
    failed,           \* overview: total_messages - success
    failed_messages,  \* the table analyze_failures returned
    failure_counts,   \* the failure breakdown: buckets of reason and count
    selected_reason,  \* the reason chosen in the selectbox
    contact_csv,      \* the per-reason contact export: phone numbers
    valid_count,      \* validation: rows with a valid phone number
    invalid_count,    \* validation: len(df) - valid_count
    invalid_numbers,  \* the invalid rows (phone_number, phone_clean)
    bound,            \* the script variables assigned only on some paths
    invalid_csv,      \* the invalid-number export
    shown,            \* the advisories and downloads the page shows
    completed         \* the sections of the script that ran to their end

vars == <<pc, fault, uploaded_file, df, total_messages, success, failed,
          failed_messages, failure_counts, selected_reason, contact_csv,
          valid_count, invalid_count, invalid_numbers, bound, invalid_csv,
          shown, completed>>

overviewVars == <<total_messages, success, failed>>

failureVars == <<failed_messages, failure_counts, selected_reason, contact_csv>>

validationVars == <<valid_count, invalid_count, invalid_numbers, bound, invalid_csv>>

NoFile == [header |-> {}, rows |-> <<>>]

Init ==
    /\ pc = "upload"
    /\ fault = "none"
    /\ uploaded_file = NoFile
    /\ df = EmptyFrame
    /\ total_messages = 0
    /\ success = 0
    /\ failed = 0
    /\ failed_messages = EmptyFrame
    /\ failure_counts = <<>>
    /\ selected_reason = None
    /\ contact_csv = <<>>
    /\ valid_count = 0
    /\ invalid_count = 0
    /\ invalid_numbers = EmptyFrame
    /\ bound = {}
    /\ invalid_csv = EmptyFrame
    /\ shown = {}
    /\ completed = {}

\* The user uploads a report (a header row of at least one column and up to
\* MaxRows data rows) and load_data reads it.
LoadData ==
    /\ pc = "upload"
    /\ \E H \in (SUBSET HeaderInputs) \ {{}}, n \in 0..MaxRows :
          \E cells \in [1..n -> RowInputs(H)] :
             /\ uploaded_file' = [header |-> H, rows |-> cells]
             /\ df' = load_data([header |-> H, rows |-> cells])
    /\ pc' = "overview"
    /\ UNCHANGED <<fault, overviewVars, failureVars, validationVars, shown>>
    /\ completed' = IF pc' = "fault" THEN completed ELSE completed \cup {pc}

\* The uploaded file is no table: read_csv raises, load_data reports the error
\* and returns None, and the run shows nothing else.
LoadDataError ==
    /\ pc = "upload"
    /\ shown' = shown \cup {"error: Error loading file"}
    /\ pc' = "done"
    /\ UNCHANGED <<fault, uploaded_file, df, overviewVars, failureVars,
                   validationVars>>
    /\ UNCHANGED completed

\* 1. Campaign Overview.  df['delivery_status'] raises KeyError without the
\* column, .str raises AttributeError on a column that is no text, and the
\* percentages divide by total_messages.
CampaignOverview ==
    /\ pc = "overview"
    /\ total_messages' = Len(df.rows)
    /\ IF DELIVERY_STATUS \notin df.columns
       THEN /\ fault' = "KeyError"
            /\ pc' = "fault"
            /\ UNCHANGED <<success, failed>>
       ELSE IF StrAccessorFails(df, DELIVERY_STATUS)
       THEN /\ fault' = "AttributeError"
            /\ pc' = "fault"
            /\ UNCHANGED <<success, failed>>
       ELSE /\ success' = Len(Filter(df, IsSuccess(df)).rows)
            /\ failed' = total_messages' - success'
            /\ IF total_messages' = 0
               THEN fault' = "ZeroDivisionError" /\ pc' = "fault"
               ELSE fault' = fault /\ pc' = "analyze"
    /\ UNCHANGED <<uploaded_file, df, failureVars, validationVars, shown>>
    /\ completed' = IF pc' = "fault" THEN completed ELSE completed \cup {pc}

\* 2. Detailed Failure Analysis: failed_messages = analyze_failures(df)
AnalyzeFailures ==
    /\ pc = "analyze"
    /\ LET result == analyze_failures(df)
       IN  /\ failed_messages' = result.frame
           /\ shown' = shown \cup result.warnings
    /\ pc' = "breakdown"
    /\ UNCHANGED <<fault, uploaded_file, df, overviewVars, failure_counts,
                   selected_reason, contact_csv, validationVars>>
    /\ completed' = IF pc' = "fault" THEN completed ELSE completed \cup {pc}

\* The failure reasons grouped and counted, or the note that nothing failed.
FailureBreakdown ==
    /\ pc = "breakdown"
    /\ IF IsEmpty(failed_messages)
       THEN /\ shown' = shown \cup {"success: No failed messages found in this report"}
            /\ pc' = "validate"
            /\ UNCHANGED failure_counts
       ELSE /\ failure_counts' \in value_counts(failed_messages, FAILURE_REASON)
            /\ pc' = "details"
            /\ UNCHANGED shown
    /\ UNCHANGED <<fault, uploaded_file, df, overviewVars, failed_messages,
                   selected_reason, contact_csv, validationVars>>
    /\ completed' = IF pc' = "fault" THEN completed ELSE completed \cup {pc}

\* Failed Messages Details: the table selects phone_number, delivery_status
\* and failure_reason, and the failed rows are offered as a download.
FailedMessagesDetails ==
    /\ pc = "details"
    /\ IF {PHONE_NUMBER, DELIVERY_STATUS, FAILURE_REASON} \subseteq failed_messages.columns
       THEN /\ shown' = shown \cup {"download: failed_messages.csv"}
            /\ pc' = "extract"
            /\ UNCHANGED fault
       ELSE /\ fault' = "KeyError"
            /\ pc' = "fault"
            /\ UNCHANGED shown
    /\ UNCHANGED <<uploaded_file, df, overviewVars, failureVars, validationVars>>
    /\ completed' = IF pc' = "fault" THEN completed ELSE completed \cup {pc}

\* Extract Contacts by Failure Reason: the user selects one of the buckets.
ExtractContacts ==
    /\ pc = "extract"
    /\ \E reason \in IF failure_counts = <<>>
                     THEN {None}
                     ELSE {failure_counts[i].reason : i \in DOMAIN failure_counts} :
          LET filtered_contacts ==
                  Filter(failed_messages,
                         [k \in 1..Len(failed_messages.rows) |->
                             failed_messages.rows[k][FAILURE_REASON] = reason])
          IN  /\ selected_reason' = reason
              /\ IF IsEmpty(filtered_contacts)
                 THEN UNCHANGED <<contact_csv, shown>>
                 ELSE /\ contact_csv' =
                            drop_duplicates(Column(filtered_contacts, PHONE_NUMBER))
                      /\ shown' = shown \cup {"download: contacts"}
    /\ pc' = "validate"
    /\ UNCHANGED <<fault, uploaded_file, df, overviewVars, failed_messages,
                   failure_counts, validationVars>>
    /\ completed' = IF pc' = "fault" THEN completed ELSE completed \cup {pc}

\* 3. Phone Number Validation: the cleaned number and its validity are
\* written to df, and invalid_numbers is assigned only when some row is
\* invalid.
PhoneValidation ==
    /\ pc = "validate"
    /\ IF PHONE_NUMBER \in df.columns
       THEN /\ df' = ValidatedFrame(df)
            /\ valid_count' = Len(Filter(df', Not(IsInvalid(df'))).rows)
            /\ invalid_count' = Len(df'.rows) - valid_count'
            /\ IF invalid_count' > 0
               THEN /\ invalid_numbers' =
                          Project(Filter(df', IsInvalid(df')), {PHONE_NUMBER, PHONE_CLEAN})
                    /\ bound' = bound \cup {"invalid_numbers"}
               ELSE UNCHANGED <<invalid_numbers, bound>>
            /\ pc' = "export"
            /\ UNCHANGED shown
       ELSE /\ shown' = shown \cup {"warning: Phone Number column not found in the data"}
            /\ pc' = "done"
            /\ UNCHANGED <<df, valid_count, invalid_count, invalid_numbers, bound>>
    /\ UNCHANGED <<fault, uploaded_file, overviewVars, failureVars, invalid_csv>>
    /\ completed' = IF pc' = "fault" THEN completed ELSE completed \cup {pc}

\* The alert template and the invalid-number download: reading
\* invalid_numbers raises NameError when the run never assigned it.
InvalidExport ==
    /\ pc = "export"
    /\ IF "invalid_numbers" \in bound
       THEN /\ invalid_csv' = invalid_numbers
            /\ shown' = shown \cup {"download: invalid_numbers.csv"}
            /\ pc' = "done"
            /\ UNCHANGED fault
       ELSE /\ fault' = "NameError"
            /\ pc' = "fault"
            /\ UNCHANGED <<invalid_csv, shown>>
    /\ UNCHANGED <<uploaded_file, df, overviewVars, failureVars, valid_count,
                   invalid_count, invalid_numbers, bound>>
    /\ completed' = IF pc' = "fault" THEN completed ELSE completed \cup {pc}

Next ==
    \/ LoadData
    \/ LoadDataError
    \/ CampaignOverview
    \/ AnalyzeFailures
    \/ FailureBreakdown
    \/ FailedMessagesDetails
    \/ ExtractContacts
    \/ PhoneValidation
    \/ InvalidExport

Spec == Init /\ [][Next]_vars

----------------------------------------------------------------------------
\* Properties

\* A report has been loaded into df.
Loaded == uploaded_file # NoFile

\* The status column exists and is a text column.
StatusReadable ==
    /\ DELIVERY_STATUS \in df.columns
    /\ ~StrAccessorFails(df, DELIVERY_STATUS)

\* The header of the uploaded file that becomes phone_number.
PhoneHeader == CHOOSE h \in uploaded_file.header : NormalizeColumn(h) = PHONE_NUMBER

\* The label of every failed row (its position in df).
FailedLabels == {failed_messages.index[k] : k \in 1..Len(failed_messages.rows)}

RECURSIVE SumCounts(_)
SumCounts(buckets) ==
    IF buckets = <<>> THEN 0
    ELSE buckets[1].count + SumCounts(Tail(buckets))

\* C1: when the loaded table has no delivery_status column the run never ends
\* in a fault, and at its end the failure set is empty, the missing-column
\* warning is shown and the overview, the failure analysis and the phone
\* validation have all completed.
C1_MissingStatusIsNotFatal ==
    (Loaded /\ DELIVERY_STATUS \notin df.columns) =>
        /\ fault = "none"
        /\ pc = "done" =>
              /\ IsEmpty(failed_messages)
              /\ "warning: Delivery Status column not found" \in shown
              /\ {"overview", "analyze", "validate"} \subseteq completed

\* C2: when the loaded table has delivery_status but no phone_number column
\* the run never ends in a fault, and at its end the missing-column warning is
\* shown and no phone-validation row exists.  Stated for tables of at least
\* one row whose status column is text, so that only the missing phone_number
\* column can be at fault.
C2_MissingPhoneIsNotFatal ==
    (Loaded /\ StatusReadable /\ Len(df.rows) > 0 /\ PHONE_NUMBER \notin df.columns) =>
        /\ fault = "none"
        /\ pc = "done" =>
              /\ "warning: Phone Number column not found in the data" \in shown
              /\ PHONE_CLEAN \notin df.columns
              /\ IsEmpty(invalid_numbers)

C4_ReasonOrPlaceholder ==
    ("analyze" \in completed /\ ~IsEmpty(failed_messages)) =>
        \A k \in 1..Len(failed_messages.rows) :
           LET row == df.rows[failed_messages.index[k]]
               described == /\ DELIVERY_DESCRIPTION \in df.columns
                            /\ row[DELIVERY_DESCRIPTION] # NaN
           IN  failed_messages.rows[k][FAILURE_REASON] =
                  IF described THEN row[DELIVERY_DESCRIPTION] ELSE NO_REASON

\* C5: the counts of the failure-reason buckets sum to the overview's failed
\* total.
C5_BucketsSumToFailed ==
    "breakdown" \in completed =>
        SumCounts(failure_counts) = failed

\* C6: phone_clean of every row is all the digits, in order, of the phone
\* number as the uploaded file holds it, and a number without a digit has an
\* empty phone_clean and is not valid.
C6_CleanIsAllDigitsOfInput ==
    PHONE_CLEAN \in df.columns =>
        \A k \in 1..Len(df.rows) :
           LET typed == uploaded_file.rows[k][PhoneHeader]
           IN  /\ df.rows[k][PHONE_CLEAN] = RemoveNonDigits(typed)
               /\ RemoveNonDigits(typed) = <<>> =>
                     /\ df.rows[k][PHONE_CLEAN] = <<>>
                     /\ df.rows[k][IS_VALID] = PyFalse

\* C7: for every loaded dataset, one of zero rows included, the overview
\* completes with success + failed = total and the phone validation, when it
\* has run, has valid + invalid = total.  Stated for tables whose status
\* column exists and is text.
C7_CountsAddUp ==
    (Loaded /\ StatusReadable /\ pc # "overview") =>
        /\ "overview" \in completed
        /\ success + failed = total_messages
        /\ total_messages = Len(df.rows)
        /\ ("validate" \in completed /\ PHONE_NUMBER \in df.columns) =>
              valid_count + invalid_count = total_messages

\* The failed rows whose failure_reason is the selected reason.
Selected ==
    {k \in 1..Len(failed_messages.rows) :
        failed_messages.rows[k][FAILURE_REASON] = selected_reason}

\* The phone_number the Dataset holds for a failed row.
DatasetPhone(k) == df.rows[failed_messages.index[k]][PHONE_NUMBER]

\* The first selected row that holds the phone number.
FirstSelected(v) ==
    CHOOSE k \in Selected :
        /\ DatasetPhone(k) = v
        /\ \A j \in Selected : DatasetPhone(j) = v => k <= j

C9_DatasetNeverChanges ==
    [][pc # "upload" => df' = df]_vars

\* C9 amended: once load_data has returned, no step changes the rows, the
\* labels or the value of any column the Dataset holds; a step adds no column
\* but phone_clean and is_valid, which the phone validation writes to the
\* Dataset itself; the failed subset and failure_reason stay in
\* failed_messages.
C9_LoadedColumnsNeverChange ==
    [][pc # "upload" =>
          /\ df'.index = df.index
          /\ Len(df'.rows) = Len(df.rows)
          /\ df.columns \subseteq df'.columns
          /\ df'.columns \ df.columns \subseteq {PHONE_CLEAN, IS_VALID}
          /\ \A k \in 1..Len(df.rows) :
                \A c \in df.columns : df'.rows[k][c] = df.rows[k][c]
          /\ (pc # "validate" => df'.columns = df.columns)]_vars

\* C9 witness: the phone validation has written its columns to a Dataset
\* whose phone_number column holds a missing value and a number, after
\* analyze_failures returned failed rows with their failure_reason.
C9_Witness ==
    /\ "validate" \in completed
    /\ {PHONE_CLEAN, IS_VALID} \subseteq df.columns
    /\ FAILURE_REASON \notin df.columns
    /\ FAILURE_REASON \in failed_messages.columns
    /\ \E i, j \in 1..Len(df.rows) :
          /\ df.rows[i][PHONE_NUMBER] = NaN
          /\ df.rows[j][PHONE_NUMBER] # NaN

\* C10: for every dataset of at least one row with the delivery_status and
\* phone_number columns, the phone validation completes and the invalid-phone
\* export is offered without a fault, as an empty table when no number is
\* invalid.  Stated for tables whose status column is text.
C10_InvalidExportAlwaysOffered ==
    (Loaded /\ StatusReadable /\ Len(df.rows) > 0 /\ PHONE_NUMBER \in df.columns) =>
        /\ fault = "none"
        /\ pc = "done" =>
              /\ "download: invalid_numbers.csv" \in shown
              /\ invalid_count = 0 => IsEmpty(invalid_csv)

=============================================================================
